---------------------------- MODULE Spec2Model ----------------------------
(***************************************************************************)
(* Model of gui.py, the desktop client of the EEPROM file store: the text  *)
(* transforms (escape_for_arduino, unescape_from_arduino, bytes_to_text),  *)
(* the SerialClient (connect, close, is_open, send_line) and the file      *)
(* operations of ModernEEPROM (refresh_files, read_selected,               *)
(* write_selected, rename_selected, delete_selected, toggle_connect).      *)
(*                                                                         *)
(* Text is a sequence of character codes, a byte string a sequence of      *)
(* numbers in 0..255.  A Python method is an operator of the same name     *)
(* from a "world" record (the fields of the client, of the widgets and of  *)
(* the transports) to the world after the call; an action applies one      *)
(* GUI callback or client method to the current world.  A callback that    *)
(* asks the user (rename_selected, delete_selected) is two steps: up to    *)
(* the dialog, which runs the event loop, and from its answer on; other    *)
(* callbacks may run in between.  The message boxes of toggle_connect come *)
(* after its last change of state, so it stays one step.  Labels that only *)
(* display text (status line, file name label, button caption) are not     *)
(* part of the state.  A transport operation on an open handle is taken    *)
(* not to raise.                                                           *)
(***************************************************************************)
EXTENDS Integers, Sequences, FiniteSets, TLC

VARIABLES
    ser,        \* SerialClient.ser: 0 for None, else the number of a transport
    isOpen,     \* isOpen[h]: serial.Serial.is_open of the h-th transport created
    inbuf,      \* unread input pending on the referenced transport
    tree,       \* rows of the Treeview: sequence of [name, size], iid = position
    selection,  \* tree.selection(): 0 for none, else the selected iid
    editor,     \* content of the ScrolledText editor
    io,         \* transport accesses made by the most recent call, in order
    ret,        \* value returned by the most recent send_line call
    last,       \* the most recent call: its name and the state it was made in
    slots,      \* mock device: stored content of each slot
    written,    \* for each slot, the editor text of the last write to it
    arg,        \* input of a text transform
    res,        \* output of a text transform
    dialogs,    \* callbacks waiting in a dialog, innermost last: [kind, idx]
    pc          \* phase of the application / of the text transform harness

vars == <<ser, isOpen, inbuf, tree, selection, editor, io, ret, last,
          slots, written, arg, res, dialogs, pc>>

(***************************************************************************)
(* Program constants and character codes named in the source.              *)
(***************************************************************************)
FILE_COUNT == 3
NAME_MAX == 9
LF == 10
CR == 13
BS == 92
SP == 32
Ch_n == 110
Ch_r == 114
COLON == 58
LPAREN == 40
PRINT_LO == 32
PRINT_HI == 126

None == 0

LIST == <<76, 73, 83, 84>>
READ == <<82, 69, 65, 68>>
WRITE == <<87, 82, 73, 84, 69>>
WRITE_NAME == <<87, 82, 73, 84, 69, 95, 78, 65, 77, 69>>
DELETE == <<68, 69, 76, 69, 84, 69>>
EMPTY_LABEL == <<40, 101, 109, 112, 116, 121, 41>>

(***************************************************************************)
(* Bounds of the model.                                                    *)
(***************************************************************************)
MaxStr == 3        \* length of the inputs of the text transforms
MaxText == 3       \* length of the editor texts of the write/read cycle
MaxLines == 3      \* number of lines of a LIST response
MaxHandles == 2    \* transports opened in one run
MaxWritten == 1    \* slots written in one run of the write/read cycle
MaxDialogs == 1    \* dialogs open at once

RECURSIVE SeqsUpTo(_, _)
SeqsUpTo(S, n) ==
    IF n = 0 THEN {<<>>}
    ELSE LET shorter == SeqsUpTo(S, n - 1)
         IN  shorter \cup {Append(s, c) : s \in {t \in shorter : Len(t) = n - 1}, c \in S}

(***************************************************************************)
(* Python string primitives used by the source.                            *)
(***************************************************************************)
\* s.replace(c, rep) for a one-character c
RECURSIVE Replace(_, _, _)
Replace(s, c, rep) ==
    IF s = <<>> THEN <<>>
    ELSE (IF Head(s) = c THEN rep ELSE <<Head(s)>>) \o Replace(Tail(s), c, rep)

\* str(n) of a natural number
RECURSIVE DecStr(_)
DecStr(n) == IF n < 10 THEN <<48 + n>> ELSE DecStr(n \div 10) \o <<48 + (n % 10)>>

\* the UTF-8 bytes of one character; a surrogate cannot be encoded and
\* errors='ignore' drops it
Utf8Char(c) ==
    IF c < 128 THEN <<c>>
    ELSE IF c < 2048 THEN <<192 + (c \div 64), 128 + (c % 64)>>
    ELSE IF c \in 55296..57343 THEN <<>>
    ELSE IF c < 65536
         THEN <<224 + (c \div 4096), 128 + ((c \div 64) % 64), 128 + (c % 64)>>
    ELSE <<240 + (c \div 262144), 128 + ((c \div 4096) % 64),
           128 + ((c \div 64) % 64), 128 + (c % 64)>>

\* s.encode('utf-8', errors='ignore')
RECURSIVE EncodeUtf8(_)
EncodeUtf8(s) == IF s = <<>> THEN <<>> ELSE Utf8Char(Head(s)) \o EncodeUtf8(Tail(s))

\* s.rstrip('\n')
RECURSIVE RStripLF(_)
RStripLF(s) ==
    IF s # <<>> /\ s[Len(s)] = LF THEN RStripLF(SubSeq(s, 1, Len(s) - 1)) ELSE s

\* str.isspace() on the characters below 128
IsSpace(c) == c \in (9..13) \cup (28..32)

RECURSIVE LStrip(_)
LStrip(s) == IF s # <<>> /\ IsSpace(Head(s)) THEN LStrip(Tail(s)) ELSE s

RECURSIVE RStrip(_)
RStrip(s) ==
    IF s # <<>> /\ IsSpace(s[Len(s)]) THEN RStrip(SubSeq(s, 1, Len(s) - 1)) ELSE s

\* s.strip()
Strip(s) == LStrip(RStrip(s))

\* position of the first c in s, 0 when there is none
RECURSIVE IndexOf(_, _, _)
IndexOf(s, c, i) ==
    IF i > Len(s) THEN 0 ELSE IF s[i] = c THEN i ELSE IndexOf(s, c, i + 1)

\* s.split(c): the pieces of s between the occurrences of c
RECURSIVE Split(_, _)
Split(s, c) ==
    LET k == IndexOf(s, c, 1)
    IN  IF k = 0 THEN <<s>>
        ELSE <<SubSeq(s, 1, k - 1)>> \o Split(SubSeq(s, k + 1, Len(s)), c)

\* s.split(): the whitespace-separated tokens of s
RECURSIVE Tokens(_)
Tokens(s) ==
    LET t == LStrip(s)
        k == CHOOSE j \in 1..(Len(t) + 1) :
                 /\ j = Len(t) + 1 \/ IsSpace(t[j])
                 /\ \A i \in 1..(j - 1) : ~IsSpace(t[i])
    IN  IF t = <<>> THEN <<>>
        ELSE <<SubSeq(t, 1, k - 1)>> \o Tokens(SubSeq(t, k, Len(t)))

\* txt.splitlines() of a text whose only line boundary is LF (bytes_to_text keeps
\* no other): the pieces between line feeds, without a last empty piece
SplitLines(txt) ==
    LET parts == Split(txt, LF)
    IN  IF parts[Len(parts)] = <<>> THEN SubSeq(parts, 1, Len(parts) - 1) ELSE parts

\* s.startswith(p)
StartsWith(s, p) == Len(s) >= Len(p) /\ SubSeq(s, 1, Len(p)) = p

IsDigit(c) == c \in 48..57

\* int(tok) accepts an optional sign, then digits with single underscores between
IntOk(tok) ==
    LET signed == tok # <<>> /\ Head(tok) \in {43, 45}
        d == IF signed THEN Tail(tok) ELSE tok
    IN  /\ d # <<>>
        /\ IsDigit(d[1]) /\ IsDigit(d[Len(d)])
        /\ \A i \in 1..Len(d) : IsDigit(d[i]) \/ d[i] = 95
        /\ \A i \in 1..(Len(d) - 1) : ~(d[i] = 95 /\ d[i + 1] = 95)

RECURSIVE DigitsVal(_, _)
DigitsVal(d, acc) ==
    IF d = <<>> THEN acc
    ELSE DigitsVal(Tail(d), IF Head(d) = 95 THEN acc ELSE 10 * acc + (Head(d) - 48))

IntVal(tok) ==
    IF Head(tok) = 45 THEN 0 - DigitsVal(Tail(tok), 0)
    ELSE IF Head(tok) = 43 THEN DigitsVal(Tail(tok), 0)
    ELSE DigitsVal(tok, 0)

(***************************************************************************)
(* Utilities (gui.py, lines 20-40).                                        *)
(***************************************************************************)
\* faulty variant: line feeds and carriage returns escaped before the backslashes
escape_newline_first(s) ==
    Replace(Replace(Replace(s, LF, <<BS, Ch_n>>), CR, <<BS, Ch_r>>), BS, <<BS, BS>>)

escape_for_arduino(s) ==
    Replace(Replace(Replace(s, BS, <<BS, BS>>), LF, <<BS, Ch_n>>), CR, <<BS, Ch_r>>)

RECURSIVE unescape_from(_, _)
unescape_from(s, i) ==
    IF i > Len(s) THEN <<>>
    ELSE IF s[i] = BS /\ i + 1 <= Len(s)
         THEN LET nxt == s[i + 1]
              IN  (IF nxt = Ch_n THEN <<LF>>
                   ELSE IF nxt = Ch_r THEN <<CR>>
                   ELSE IF nxt = BS THEN <<BS>>
                   ELSE <<nxt>>) \o unescape_from(s, i + 2)
         ELSE <<s[i]>> \o unescape_from(s, i + 1)

unescape_from_arduino(s) == unescape_from(s, 1)

\* faulty variant: the carriage return is kept as well
bytes_to_text_keep_cr(b) ==
    SelectSeq(b, LAMBDA x : (PRINT_LO <= x /\ x <= PRINT_HI) \/ x \in {LF, CR})

RECURSIVE bytes_to_text(_)
bytes_to_text(b) ==
    IF b = <<>> THEN <<>>
    ELSE (IF (PRINT_LO <= Head(b) /\ Head(b) <= PRINT_HI) \/ Head(b) \in {LF}
          THEN <<Head(b)>> ELSE <<>>) \o bytes_to_text(Tail(b))


(***************************************************************************)
(* The world: the fields of SerialClient, the transports it created and    *)
(* the widgets the callbacks read and write.  io and ret start empty in    *)
(* every call; raised is set when serial.Serial(...) raises.               *)
(***************************************************************************)
World ==
    [ser |-> ser, isOpen |-> isOpen, inbuf |-> inbuf, tree |-> tree,
     selection |-> selection, editor |-> editor, io |-> <<>>, ret |-> <<>>,
     raised |-> FALSE]

\* one transport access: the method, the handle, the bytes it carried and, for
\* the polling read of send_line, the bytes that arrived between the clearing
\* of the input and the last poll
Ev(op, h, data, arrived) == [op |-> op, h |-> h, data |-> data, arrived |-> arrived]

(***************************************************************************)
(* SerialClient (gui.py, lines 43-74).                                     *)
(***************************************************************************)
\* faulty variant: any client counts as open
is_open_always(w) == TRUE

is_open(w) == w.ser # None /\ w.isOpen[w.ser]

\* self.ser.reset_input_buffer()
\* faulty variant: the pending input is left in place
reset_input_buffer_skipped(w) ==
    [w EXCEPT !.io = Append(@, Ev("reset", w.ser, <<>>, <<>>))]

reset_input_buffer(w) ==
    [w EXCEPT !.inbuf = <<>>, !.io = Append(@, Ev("reset", w.ser, <<>>, <<>>))]

\* self.ser.write(data)
ser_write(w, data) == [w EXCEPT !.io = Append(@, Ev("write", w.ser, data, <<>>))]

\* what the device sends while send_line polls: the bytes there at a poll,
\* and the bytes that come after the last poll and before the return
Window(polled, late) == [polled |-> polled, late |-> late]
InTime(bytes) == Window(bytes, <<>>)
Silent == InTime(<<>>)

\* the polling loop of send_line: everything pending and everything there at
\* a poll within READ_TIMEOUT is read; the loop returns without a last poll,
\* so what comes after its last poll is pending at the return
poll_window(w, win) ==
    [w EXCEPT !.ret = w.inbuf \o win.polled, !.inbuf = win.late,
              !.io = Append(@, Ev("read", w.ser, w.inbuf \o win.polled, win.polled))]

\* the input pending on a transport is gone with the reference to it
close(w) ==
    LET w1 == IF w.ser # None /\ w.isOpen[w.ser]
              THEN [w EXCEPT !.isOpen[w.ser] = FALSE,
                             !.io = Append(@, Ev("close", w.ser, <<>>, <<>>))]
              ELSE w
    IN  [w1 EXCEPT !.ser = None, !.inbuf = <<>>]

\* serial.Serial(port, baud, timeout): a new open transport, or an exception;
\* settle is what the device sends during the 0.15 s that follow
open_transport(w, ok, settle) ==
    IF ok
    THEN LET h == Len(w.isOpen) + 1
         IN  reset_input_buffer(
                 [w EXCEPT !.isOpen = Append(@, TRUE), !.ser = h, !.inbuf = settle,
                           !.io = Append(@, Ev("open", h, <<>>, <<>>))])
    ELSE [w EXCEPT !.raised = TRUE]

\* faulty variant: the connection held is not closed first
connect_without_close(w, ok, settle) == open_transport(w, ok, settle)

connect(w, ok, settle) ==
    open_transport(IF w.ser # None THEN close(w) ELSE w, ok, settle)

send_line(w, line, win) ==
    IF ~is_open(w) THEN [w EXCEPT !.ret = <<>>]
    ELSE poll_window(ser_write(reset_input_buffer(w), EncodeUtf8(line \o <<LF>>)), win)

\* bytes the device sends between two calls
arrive(w, bytes) == IF w.ser # None THEN [w EXCEPT !.inbuf = @ \o bytes] ELSE w

(***************************************************************************)
(* File operations of ModernEEPROM (gui.py, lines 200-263).                *)
(***************************************************************************)
\* the body of the try of refresh_files, on one line of the response
ParseEntry(ln) ==
    LET byColon == Split(ln, COLON)
        afterColon == SubSeq(ln, IndexOf(ln, COLON, 1) + 1, Len(ln))
        pieces == Split(ln, LPAREN)
        toks == Tokens(pieces[2])
    IN  IF Len(byColon) >= 2 /\ Len(pieces) >= 2 /\ toks # <<>> /\ IntOk(toks[1])
        THEN [ok |-> TRUE, name |-> Strip(Split(afterColon, LPAREN)[1]),
              size |-> IntVal(toks[1])]
        ELSE [ok |-> FALSE, name |-> EMPTY_LABEL, size |-> 0]

\* lines = [ln.strip() for ln in txt.splitlines() if ln.strip()]
ListingLines(txt) ==
    LET raw == SplitLines(txt)
        stripped == [k \in 1..Len(raw) |-> Strip(raw[k])]
    IN  SelectSeq(stripped, LAMBDA ln : ln # <<>>)

\* position of the first line that starts with p, 0 when there is none
RECURSIVE FirstWithPrefix(_, _, _)
FirstWithPrefix(lines, p, k) ==
    IF k > Len(lines) THEN 0
    ELSE IF StartsWith(lines[k], p) THEN k ELSE FirstWithPrefix(lines, p, k + 1)

\* one turn of the loop over range(FILE_COUNT): the first line that starts with
\* "<i>:" decides the row, whether it parses or not
ListingEntry(lines, i) ==
    LET k == FirstWithPrefix(lines, DecStr(i) \o <<COLON>>, 1)
        e == ParseEntry(lines[k])
    IN  IF k # 0 /\ e.ok THEN [name |-> e.name, size |-> e.size]
        ELSE [name |-> EMPTY_LABEL, size |-> 0]

refresh_files(w, win) ==
    IF ~is_open(w) THEN w
    ELSE LET w1 == send_line(w, LIST, win)
             lines == ListingLines(bytes_to_text(w1.ret))
         IN  [w1 EXCEPT !.tree = [i \in 1..FILE_COUNT |-> ListingEntry(lines, i)],
                        !.selection = 0]

\* the line of each command
read_line(idx) == READ \o <<SP>> \o DecStr(idx)
write_line(idx, text) == WRITE \o <<SP>> \o DecStr(idx) \o <<SP>> \o escape_for_arduino(text)
rename_line(idx, newname) ==
    WRITE_NAME \o <<SP>> \o DecStr(idx) \o <<SP>>
        \o SubSeq(newname, 1, IF Len(newname) < NAME_MAX THEN Len(newname) ELSE NAME_MAX)
delete_line(idx) == DELETE \o <<SP>> \o DecStr(idx)

\* self.editor.get('1.0','end'): the content and the newline Tk ends it with
editor_get(w) == w.editor \o <<LF>>

read_selected(w, win) ==
    IF w.selection = 0 \/ ~is_open(w) THEN w
    ELSE LET w1 == send_line(w, read_line(w.selection), win)
         IN  [w1 EXCEPT !.editor = unescape_from_arduino(bytes_to_text(w1.ret))]

write_selected(w, win1, gap, win2) ==
    IF w.selection = 0 \/ ~is_open(w) THEN w
    ELSE LET text == RStripLF(editor_get(w))
             w1 == send_line(w, write_line(w.selection, text), win1)
         IN  refresh_files(arrive(w1, gap), win2)

\* rename_selected and delete_selected up to their dialog: whether the
\* callback goes on to ask the user
asks_user(w) == ~(w.selection = 0 \/ ~is_open(w))

\* rename_selected from the answer of the dialog on, idx as read before it;
\* answered: the dialog was not cancelled
rename_selected(w, idx, answered, newname, win1, gap, win2) ==
    IF ~answered \/ newname = <<>> THEN w
    ELSE LET w1 == send_line(w, rename_line(idx, newname), win1)
         IN  refresh_files(arrive(w1, gap), win2)

\* faulty variant: the listing is not asked again after the deletion
delete_selected_no_refresh(w, idx, yes, win1, gap, win2) ==
    IF ~yes THEN w
    ELSE LET w1 == send_line(w, delete_line(idx), win1)
         IN  [arrive(w1, gap) EXCEPT !.editor = <<>>]

\* delete_selected from the answer of the dialog on, idx as read before it
delete_selected(w, idx, yes, win1, gap, win2) ==
    IF ~yes THEN w
    ELSE LET w1 == send_line(w, delete_line(idx), win1)
         IN  refresh_files([arrive(w1, gap) EXCEPT !.editor = <<>>], win2)

\* blank: the port entry is empty
toggle_connect(w, blank, ok, settle, win) ==
    IF is_open(w) THEN close(w)
    ELSE IF blank THEN w
    ELSE LET w1 == connect(w, ok, settle)
         IN  IF w1.raised THEN w1 ELSE refresh_files(w1, win)

\* the try of ModernEEPROM.__init__
startup(w, ok, settle, win) ==
    LET w1 == connect(w, ok, settle)
    IN  IF w1.raised THEN w1 ELSE refresh_files(w1, win)

(***************************************************************************)
(* Mock device of the write/read cycle: it stores the unescaped payload of *)
(* "WRITE i <payload>" in slot i, answers "READ i" with the escaped        *)
(* content of slot i and "LIST" with one line per occupied slot.           *)
(***************************************************************************)
RECURSIVE MockUnescape(_)
MockUnescape(p) ==
    IF p = <<>> THEN <<>>
    ELSE IF Head(p) = BS /\ Len(p) >= 2
         THEN <<CASE p[2] = Ch_n -> LF [] p[2] = Ch_r -> CR [] OTHER -> p[2]>>
                  \o MockUnescape(SubSeq(p, 3, Len(p)))
         ELSE <<Head(p)>> \o MockUnescape(Tail(p))

RECURSIVE MockEscape(_)
MockEscape(t) ==
    IF t = <<>> THEN <<>>
    ELSE (CASE Head(t) = BS -> <<BS, BS>>
            [] Head(t) = LF -> <<BS, Ch_n>>
            [] Head(t) = CR -> <<BS, Ch_r>>
            [] OTHER -> <<Head(t)>>) \o MockEscape(Tail(t))

\* the command line of a request: the bytes before its first line feed
MockCommand(wire) ==
    LET k == IndexOf(wire, LF, 1)
    IN  IF k = 0 THEN wire ELSE SubSeq(wire, 1, k - 1)

\* verb, slot index and payload of a command line "VERB i payload"
MockFields(cmd) ==
    LET k1 == IndexOf(cmd, SP, 1)
        rest == IF k1 = 0 THEN <<>> ELSE SubSeq(cmd, k1 + 1, Len(cmd))
        k2 == IndexOf(rest, SP, 1)
        num == IF k2 = 0 THEN rest ELSE SubSeq(rest, 1, k2 - 1)
    IN  [verb |-> IF k1 = 0 THEN cmd ELSE SubSeq(cmd, 1, k1 - 1),
         idx |-> IF IntOk(num) THEN IntVal(num) ELSE 0,
         payload |-> IF k2 = 0 THEN <<>> ELSE SubSeq(rest, k2 + 1, Len(rest))]

MockStore(st, wire) ==
    LET f == MockFields(MockCommand(wire))
    IN  IF f.verb = WRITE /\ f.idx \in 1..FILE_COUNT
        THEN [st EXCEPT ![f.idx] = MockUnescape(f.payload)]
        ELSE st

RECURSIVE MockListing(_, _)
MockListing(st, i) ==
    IF i > FILE_COUNT THEN <<>>
    ELSE (IF st[i] = <<>> THEN <<>>
          ELSE DecStr(i) \o <<COLON, SP, 102, SP, LPAREN>> \o DecStr(Len(st[i]))
                   \o <<SP, 66, 41, CR, LF>>) \o MockListing(st, i + 1)

MockAnswer(st, wire) ==
    LET f == MockFields(MockCommand(wire))
    IN  IF f.verb = READ /\ f.idx \in 1..FILE_COUNT THEN MockEscape(st[f.idx])
        ELSE IF f.verb = LIST THEN MockListing(st, 1)
        ELSE <<>>

(***************************************************************************)
(* Inputs.                                                                 *)
(***************************************************************************)
\* what the device may send during a read window: nothing, or the listing
\* line "1: a (2 b)" and "OK", each ended by CR LF; and after the last poll:
\* nothing, or "!"
Responses ==
    {Window(polled, late) :
        polled \in {<<>>, <<49, 58, 32, 97, 32, 40, 50, 32, 98, 41, 13, 10, 79, 75, 13, 10>>},
        late \in {<<>>, <<33>>}}

\* what the device may answer a WRITE, WRITE_NAME or DELETE with: nothing, "OK";
\* what comes after the last poll of that window is pending with the bytes
\* of the gap before the LIST, and is drawn with them
Acks == {Silent, InTime(<<79, 75, 13, 10>>)}

\* what the device may send between two exchanges: nothing, "!"
Gaps == {<<>>, <<33>>}

\* texts typed into the editor: e-acute, euro sign, an emoji, a lone
\* surrogate, LF, backslash, "n", LF
Texts == {<<233, 8364, 128512, 55296, 10, 92, 110, 10>>}

\* answers to the rename dialog: empty, "verylongfilename", "a", LF, "b"
NewNames ==
    {<<>>, <<118, 101, 114, 121, 108, 111, 110, 103, 102, 105, 108, 101, 110, 97, 109, 101>>,
     <<97, 10, 98>>}

\* lines a caller hands to send_line directly: "PING"
DirectLines == {<<80, 73, 78, 71>>}

\* lines of a LIST response: "1: notes (12 bytes)", "2: (empty)",
\* "3: todo (5 bytes)", "OK", "1: x", "2: b (7 b)"
ListingLineSet ==
    {<<49, 58, 32, 110, 111, 116, 101, 115, 32, 40, 49, 50, 32, 98, 121, 116, 101, 115, 41>>,
     <<50, 58, 32, 40, 101, 109, 112, 116, 121, 41>>,
     <<51, 58, 32, 116, 111, 100, 111, 32, 40, 53, 32, 98, 121, 116, 101, 115, 41>>,
     <<79, 75>>,
     <<49, 58, 32, 120>>,
     <<50, 58, 32, 98, 32, 40, 55, 32, 98, 41>>}

\* the lines of a response, each ended by CR LF
RECURSIVE JoinLines(_)
JoinLines(ls) == IF ls = <<>> THEN <<>> ELSE Head(ls) \o <<CR, LF>> \o JoinLines(Tail(ls))

ListingResponses == {JoinLines(ls) : ls \in SeqsUpTo(ListingLineSet, MaxLines)}

\* characters of the inputs of the text transforms: control characters, the
\* ends of the printable range, backslash, "n", "r", DEL and bytes above 127
TextSamples == {0, 9, LF, CR, PRINT_LO, BS, Ch_n, Ch_r, PRINT_HI, 127, 128, 255}

\* characters of the texts of the write/read cycle
CycleChars == {BS, LF, Ch_n, CR, 9}

EmptyTree == [i \in 1..FILE_COUNT |-> [name |-> EMPTY_LABEL, size |-> 0]]

\* bookkeeping of the properties: no call made yet, no text written yet
NoCall == [op |-> "none", open |-> FALSE, h |-> None, idx |-> 0, pending |-> <<>>]
NotWritten == [set |-> FALSE, text |-> <<>>]

(***************************************************************************)
(* Actions.  Commit makes w the current world and records the call.        *)
(***************************************************************************)
Connected == ser # None /\ isOpen[ser]

CommitAt(w, op, idx) ==
    /\ ser' = w.ser
    /\ isOpen' = w.isOpen
    /\ inbuf' = w.inbuf
    /\ tree' = w.tree
    /\ selection' = w.selection
    /\ editor' = w.editor
    /\ io' = w.io
    /\ ret' = w.ret
    /\ last' = [op |-> op, open |-> Connected, h |-> ser, idx |-> idx,
                 pending |-> inbuf]

Commit(w, op) == CommitAt(w, op, selection)

\* a step that is no call of the client or of a callback leaves no record
Forget == io' = <<>> /\ ret' = <<>> /\ last' = NoCall

MayOpen(ok) == ok => Len(isOpen) < MaxHandles

\* a call that makes no exchange with the device draws no answer of it
NoAnswer(win) == ~Connected => win = Silent
NoAnswers(win1, gap, win2) == ~asks_user(World) => win1 = Silent /\ gap = <<>> /\ win2 = Silent

\* the two devices of the exchanges before a LIST: one that neither answers
\* the command nor sends anything before the LIST, one that does both
Paired(win1, gap) == (win1 = Silent) <=> (gap = <<>>)

Startup ==
    /\ pc = "new"
    /\ \E ok \in BOOLEAN, settle \in Gaps, win \in Responses :
           /\ MayOpen(ok)
           /\ ~ok => settle = <<>> /\ win = Silent
           /\ Commit(startup(World, ok, settle, win), "startup")
    /\ pc' = "running"
    /\ UNCHANGED <<slots, written, arg, res, dialogs>>

ToggleConnect ==
    /\ pc = "running"
    /\ \E blank \in BOOLEAN, ok \in BOOLEAN, settle \in Gaps, win \in Responses :
           /\ MayOpen(ok)
           /\ blank \/ Connected => ~ok
           /\ Connected => ~blank
           /\ ~ok => settle = <<>> /\ win = Silent
           /\ Commit(toggle_connect(World, blank, ok, settle, win), "toggle")
    /\ UNCHANGED <<slots, written, arg, res, dialogs, pc>>

Connect ==
    /\ pc = "running"
    /\ \E ok \in BOOLEAN, settle \in Gaps :
           /\ MayOpen(ok)
           /\ ~ok => settle = <<>>
           /\ Commit([connect(World, ok, settle) EXCEPT !.raised = FALSE], "connect")
    /\ UNCHANGED <<slots, written, arg, res, dialogs, pc>>

Close ==
    /\ pc = "running"
    /\ Commit(close(World), "close")
    /\ UNCHANGED <<slots, written, arg, res, dialogs, pc>>

SendLine ==
    /\ pc = "running"
    /\ \E line \in DirectLines, win \in Responses :
           /\ NoAnswer(win)
           /\ Commit(send_line(World, line, win), "send_line")
    /\ UNCHANGED <<slots, written, arg, res, dialogs, pc>>

Refresh ==
    /\ pc = "running"
    /\ \E win \in Responses :
           /\ NoAnswer(win)
           /\ Commit(refresh_files(World, win), "refresh")
    /\ UNCHANGED <<slots, written, arg, res, dialogs, pc>>

ReadSelected ==
    /\ pc = "running"
    /\ \E win \in Responses :
           /\ NoAnswers(win, <<>>, Silent)
           /\ Commit(read_selected(World, win), "read")
    /\ UNCHANGED <<slots, written, arg, res, dialogs, pc>>

WriteSelected ==
    /\ pc = "running"
    /\ \E win1 \in Acks, gap \in Gaps, win2 \in Responses :
           /\ NoAnswers(win1, gap, win2) /\ Paired(win1, gap)
           /\ Commit(write_selected(World, win1, gap, win2), "write")
    /\ UNCHANGED <<slots, written, arg, res, dialogs, pc>>

\* a callback stops at its dialog
Ask(kind) ==
    /\ Len(dialogs) < MaxDialogs
    /\ dialogs' = Append(dialogs, [kind |-> kind, idx |-> selection])
    /\ Forget
    /\ UNCHANGED <<ser, isOpen, inbuf, tree, selection, editor>>

Innermost == dialogs[Len(dialogs)]

\* Rename is clicked: the callback returns at once or opens its dialog
RenameSelected ==
    /\ pc = "running"
    /\ IF asks_user(World) THEN Ask("rename")
       ELSE Commit(World, "rename") /\ UNCHANGED dialogs
    /\ UNCHANGED <<slots, written, arg, res, pc>>

\* the rename dialog is answered
RenameAnswered ==
    /\ pc = "running"
    /\ dialogs # <<>> /\ Innermost.kind = "rename"
    /\ \E answered \in BOOLEAN, newname \in NewNames,
          win1 \in Acks, gap \in Gaps, win2 \in Responses :
           /\ ~answered => newname = <<>>
           /\ newname = <<>> \/ ~Connected => win1 = Silent /\ gap = <<>> /\ win2 = Silent
           /\ Paired(win1, gap)
           /\ CommitAt(rename_selected(World, Innermost.idx, answered, newname,
                                       win1, gap, win2), "rename", Innermost.idx)
    /\ dialogs' = SubSeq(dialogs, 1, Len(dialogs) - 1)
    /\ UNCHANGED <<slots, written, arg, res, pc>>

\* Delete is clicked: the callback returns at once or opens its dialog
DeleteSelected ==
    /\ pc = "running"
    /\ IF asks_user(World) THEN Ask("delete")
       ELSE Commit(World, "delete") /\ UNCHANGED dialogs
    /\ UNCHANGED <<slots, written, arg, res, pc>>

\* the delete dialog is answered
DeleteAnswered ==
    /\ pc = "running"
    /\ dialogs # <<>> /\ Innermost.kind = "delete"
    /\ \E yes \in BOOLEAN, win1 \in Acks, gap \in Gaps, win2 \in Responses :
           /\ ~yes \/ ~Connected => win1 = Silent /\ gap = <<>> /\ win2 = Silent
           /\ Paired(win1, gap)
           /\ CommitAt(delete_selected(World, Innermost.idx, yes, win1, gap, win2),
                       "delete", Innermost.idx)
    /\ dialogs' = SubSeq(dialogs, 1, Len(dialogs) - 1)
    /\ UNCHANGED <<slots, written, arg, res, pc>>

\* the user selects a row of the tree
Select ==
    /\ pc = "running"
    /\ \E i \in 1..Len(tree) : selection' = i
    /\ Forget
    /\ UNCHANGED <<ser, isOpen, inbuf, tree, editor,
                   slots, written, arg, res, dialogs, pc>>

\* the user replaces the text of the editor
EditText ==
    /\ pc = "running"
    /\ \E t \in Texts : editor' = t
    /\ Forget
    /\ UNCHANGED <<ser, isOpen, inbuf, tree, selection,
                   slots, written, arg, res, dialogs, pc>>

\* the device sends bytes nobody asked for, or too late for the window
DeviceEmit ==
    /\ pc = "running"
    /\ Connected
    /\ inbuf = <<>>
    /\ \E b \in Gaps \ {<<>>} : inbuf' = b
    /\ Forget
    /\ UNCHANGED <<ser, isOpen, tree, selection, editor,
                   slots, written, arg, res, dialogs, pc>>

Init ==
    /\ ser = None
    /\ isOpen = <<>>
    /\ inbuf = <<>>
    /\ tree = <<>>
    /\ selection = 0
    /\ editor = <<>>
    /\ io = <<>>
    /\ ret = <<>>
    /\ last = NoCall
    /\ slots = [i \in 1..FILE_COUNT |-> <<>>]
    /\ written = [i \in 1..FILE_COUNT |-> NotWritten]
    /\ arg = <<>>
    /\ res = <<>>
    /\ dialogs = <<>>
    /\ pc = "new"

Next ==
    \/ Startup
    \/ ToggleConnect
    \/ Connect
    \/ Close
    \/ SendLine
    \/ Refresh
    \/ ReadSelected
    \/ WriteSelected
    \/ RenameSelected
    \/ RenameAnswered
    \/ DeleteSelected
    \/ DeleteAnswered
    \/ Select
    \/ EditText
    \/ DeviceEmit

Spec == Init /\ [][Next]_vars

(***************************************************************************)
(* The listing alone: a connected client refreshes against a device that   *)
(* answers LIST with any response made of up to MaxLines lines.            *)
(***************************************************************************)
InitConnected ==
    /\ ser = 1
    /\ isOpen = <<TRUE>>
    /\ inbuf = <<>>
    /\ tree = EmptyTree
    /\ io = <<>>
    /\ ret = <<>>
    /\ last = NoCall
    /\ slots = [i \in 1..FILE_COUNT |-> <<>>]
    /\ written = [i \in 1..FILE_COUNT |-> NotWritten]
    /\ arg = <<>>
    /\ res = <<>>
    /\ dialogs = <<>>
    /\ pc = "running"

InitList ==
    /\ InitConnected
    /\ selection = 0
    /\ editor = <<>>

ListRefresh ==
    /\ \E win \in ListingResponses : Commit(refresh_files(World, InTime(win)), "refresh")
    /\ UNCHANGED <<slots, written, arg, res, dialogs, pc>>

NextList == ListRefresh

SpecList == InitList /\ [][NextList]_vars

(***************************************************************************)
(* The write/read cycle against the mock device: the device receives what  *)
(* the callback writes to the transport and answers within the window.     *)
(***************************************************************************)
\* the bytes of the write accesses of a log, in order
Sent(log) ==
    LET ws == SelectSeq(log, LAMBDA e : e.op = "write")
    IN  [k \in 1..Len(ws) |-> ws[k].data]

InitCycle ==
    /\ InitConnected
    /\ selection \in 1..FILE_COUNT
    /\ editor \in SeqsUpTo(CycleChars, MaxText)

CycleWrite ==
    /\ Connected /\ selection # 0
    /\ written[selection].set
          \/ Cardinality({i \in 1..FILE_COUNT : written[i].set}) < MaxWritten
    /\ LET wire == Sent(write_selected(World, Silent, <<>>, Silent).io)
           st1 == MockStore(slots, wire[1])
           w == write_selected(World, InTime(MockAnswer(slots, wire[1])), <<>>,
                               InTime(MockAnswer(st1, wire[2])))
       IN  /\ Sent(w.io) = wire
           /\ Commit(w, "write")
           /\ slots' = st1
           /\ written' = [written EXCEPT ![selection] = [set |-> TRUE, text |-> editor]]
    /\ UNCHANGED <<arg, res, dialogs, pc>>

CycleRead ==
    /\ Connected /\ selection # 0
    /\ LET wire == Sent(read_selected(World, Silent).io)
           w == read_selected(World, InTime(MockAnswer(slots, wire[1])))
       IN  /\ Sent(w.io) = wire
           /\ Commit(w, "read")
    /\ UNCHANGED <<slots, written, arg, res, dialogs, pc>>

NextCycle ==
    \/ CycleWrite
    \/ CycleRead
    \/ Select

SpecCycle == InitCycle /\ [][NextCycle]_vars

(***************************************************************************)
(* The text transforms alone, on every input of up to MaxStr characters.   *)
(***************************************************************************)
InitText ==
    /\ ser = None
    /\ isOpen = <<>>
    /\ inbuf = <<>>
    /\ tree = <<>>
    /\ selection = 0
    /\ editor = <<>>
    /\ io = <<>>
    /\ ret = <<>>
    /\ last = NoCall
    /\ slots = [i \in 1..FILE_COUNT |-> <<>>]
    /\ written = [i \in 1..FILE_COUNT |-> NotWritten]
    /\ arg \in SeqsUpTo(TextSamples, MaxStr)
    /\ res = <<>>
    /\ dialogs = <<>>
    /\ pc = "input"

TextUnchanged ==
    UNCHANGED <<ser, isOpen, inbuf, tree, selection, editor, io, ret, last,
                slots, written, arg, dialogs>>

Escape ==
    /\ pc = "input"
    /\ res' = escape_for_arduino(arg)
    /\ pc' = "escaped"
    /\ TextUnchanged

Unescape ==
    /\ pc = "escaped"
    /\ res' = unescape_from_arduino(res)
    /\ pc' = "roundtrip"
    /\ TextUnchanged

BytesToText ==
    /\ pc = "input"
    /\ res' = bytes_to_text(arg)
    /\ pc' = "filtered"
    /\ TextUnchanged

NextText ==
    \/ Escape
    \/ Unescape
    \/ BytesToText

SpecText == InitText /\ [][NextText]_vars

(***************************************************************************)
(* Properties.                                                             *)
(***************************************************************************)
Printable == PRINT_LO..PRINT_HI

FileOps == {"refresh", "read", "write", "rename", "delete"}
UserOps == FileOps \cup {"startup", "toggle"}

\* C1: for every string s of printable characters, line feeds and carriage
\* returns, unescape_from_arduino(escape_for_arduino(s)) = s; the escaped form
\* of a line feed differs from the escaped form of backslash followed by "n".
C1_EscapeRoundTrip ==
    /\ (pc = "roundtrip" /\ \A k \in 1..Len(arg) : arg[k] \in Printable \cup {LF, CR})
           => res = arg
    /\ (pc = "escaped" /\ arg = <<LF>>) => res # escape_for_arduino(<<BS, Ch_n>>)

C1_Witness == pc = "roundtrip" /\ arg = <<BS, Ch_n, LF>> /\ res = arg

\* C8: bytes_to_text(b) is the subsequence of b, in order, of the bytes in
\* 32..126 or equal to 10; every other byte is dropped.
C8_BytesToTextFilter ==
    pc = "filtered" => res = SelectSeq(arg, LAMBDA x : x \in Printable \cup {LF})

C8_Witness == pc = "filtered" /\ arg = <<CR, LF, PRINT_HI>> /\ res = <<LF, PRINT_HI>>

\* a text of printable characters, line feeds and carriage returns with a
\* backslash and a line feed that is neither its first nor its last character
EmbeddedText(t) ==
    /\ \A k \in 1..Len(t) : t[k] \in Printable \cup {LF, CR}
    /\ \E k \in 1..Len(t) : t[k] = BS
    /\ \E k \in 2..(Len(t) - 1) : t[k] = LF

\* C2, as stated: after a write of slot i, a read of slot i puts exactly the
\* text that was in the editor at the write back into the editor, for every
\* text with embedded line feeds and backslashes.
C2_WriteThenRead ==
    (last.op = "read" /\ written[last.idx].set /\ EmbeddedText(written[last.idx].text))
        => editor = written[last.idx].text

\* the texts the cycle preserves: printable characters, line feeds and carriage
\* returns, not ending with a line feed
CycleText(t) ==
    /\ \A k \in 1..Len(t) : t[k] \in Printable \cup {LF, CR}
    /\ t = <<>> \/ t[Len(t)] # LF

\* C2, amended: after a write of slot i, a read of slot i puts the text that
\* was in the editor at the write back into the editor, for every text of
\* printable characters, line feeds and carriage returns that does not end
\* with a line feed.
C2_WriteThenReadAmended ==
    (last.op = "read" /\ written[last.idx].set /\ CycleText(written[last.idx].text))
        => editor = written[last.idx].text

C2_Witness ==
    /\ last.op = "read"
    /\ written[last.idx].set
    /\ written[last.idx].text = <<BS, LF, Ch_n>>
    /\ slots[last.idx] = <<BS, LF, Ch_n>>
    /\ editor = <<BS, LF, Ch_n>>

\* C3: a file operation or a send_line made while is_open() is false returns
\* an empty result and makes no transport access.
C3_NoConnectionNoOp ==
    (last.op \in FileOps \cup {"send_line"} /\ ~last.open) => (io = <<>> /\ ret = <<>>)

C3_Witness ==
    last.op = "write" /\ ~last.open /\ last.idx # 0 /\ io = <<>> /\ ret = <<>>

\* C4: at most one transport is open, every transport the client does not
\* reference is closed, and a call that opens a transport while a connection
\* was open has closed that connection first.
C4_SingleConnection ==
    /\ Cardinality({h \in 1..Len(isOpen) : isOpen[h]}) <= 1
    /\ \A h \in 1..Len(isOpen) : h # ser => ~isOpen[h]
    /\ \A k \in 1..Len(io) :
           (io[k].op = "open" /\ last.open)
               => \E j \in 1..(k - 1) : io[j].op = "close" /\ io[j].h = last.h

C4_Witness ==
    /\ last.op = "connect" /\ last.open
    /\ ser # None /\ ser # last.h
    /\ isOpen[ser] /\ ~isOpen[last.h]

\* C9: every write of a command is preceded by the clearing of the input and
\* followed by the collection of the response; what a send_line returns is
\* exactly what arrived between its clearing of the input and its last poll,
\* so bytes pending before the call, those that came after the last poll of
\* the previous window included, are never returned, and a silent device
\* yields empty bytes.
C9_ClearWriteCollect ==
    /\ \A k \in 1..Len(io) :
           io[k].op = "write"
               => /\ k > 1 /\ io[k - 1].op = "reset" /\ io[k - 1].h = io[k].h
                  /\ k < Len(io) /\ io[k + 1].op = "read" /\ io[k + 1].h = io[k].h
    /\ \A k \in 1..Len(io) : io[k].op = "read" => io[k].data = io[k].arrived
    /\ (last.op = "send_line" /\ last.open) => ret = io[Len(io)].arrived

C9_Witness ==
    /\ last.op = "send_line" /\ last.open /\ last.pending # <<>>
    /\ Len(io) = 3 /\ io[3].arrived = <<>> /\ ret = <<>>
    /\ inbuf # <<>>

\* the verb of a command: the bytes before its first space or line feed
Verb(data) ==
    LET ends == {k \in 1..Len(data) : data[k] \in {SP, LF}}
    IN  IF ends = {} THEN data
        ELSE SubSeq(data, 1, (CHOOSE k \in ends : \A j \in ends : k <= j) - 1)

\* C10: in a user operation, every send_line that carries a WRITE, WRITE_NAME
\* or DELETE command is followed by a send_line that carries LIST, whatever the
\* device answered.
C10_MutationThenList ==
    last.op \in UserOps =>
        LET sent == Sent(io)
        IN  \A k \in 1..Len(sent) :
                Verb(sent[k]) \in {WRITE, WRITE_NAME, DELETE}
                    => k < Len(sent) /\ sent[k + 1] = LIST \o <<LF>>

C10_Witness ==
    /\ last.op = "delete" /\ last.open
    /\ Len(io) = 6 /\ io[3].arrived = <<>>
    /\ Verb(io[2].data) = DELETE /\ io[5].data = LIST \o <<LF>>

\* C7: what one send_line of a user operation writes to the transport
\* contains exactly one line feed, its last byte.
C7_OneLinePerCommand ==
    last.op \in UserOps =>
        \A k \in 1..Len(io) :
            io[k].op = "write"
                => /\ Cardinality({j \in 1..Len(io[k].data) : io[k].data[j] = LF}) = 1
                   /\ io[k].data[Len(io[k].data)] = LF

\* the lines of the response to the last LIST, as refresh_files splits it
ResponseLines == ListingLines(bytes_to_text(ret))

\* positions of the lines "i: name (size ...)" of slot i
WellFormedAt(lines, i) ==
    {k \in 1..Len(lines) :
        StartsWith(lines[k], DecStr(i) \o <<COLON>>) /\ ParseEntry(lines[k]).ok}

\* name and size of the first such line
Reported(lines, i) ==
    LET wf == WellFormedAt(lines, i)
        e == ParseEntry(lines[CHOOSE k \in wf : \A j \in wf : k <= j])
    IN  [name |-> e.name, size |-> e.size]

\* C5: the listing has FILE_COUNT rows in index order; row i carries the name
\* and size of the response line "i: name (size ...)", and "(empty)" and 0
\* when the response has no such line.
C5_ListingParse ==
    (last.op = "refresh" /\ last.open) =>
        /\ Len(tree) = FILE_COUNT
        /\ \A i \in 1..FILE_COUNT :
               tree[i] = IF WellFormedAt(ResponseLines, i) # {}
                         THEN Reported(ResponseLines, i)
                         ELSE [name |-> EMPTY_LABEL, size |-> 0]

\* C6: when the response has a line "i: name (size ...)", row i carries its
\* name and size, whatever malformed or unrelated lines surround it.
C6_ListingTolerant ==
    (last.op = "refresh" /\ last.open) =>
        \A i \in 1..FILE_COUNT :
            WellFormedAt(ResponseLines, i) # {} => tree[i] = Reported(ResponseLines, i)

=============================================================================
